---- MODULE Spec2Model ----
(***************************************************************************)
(* Address validators of src/plugins/validators/index.ts and the Blackpay  *)
(* plugin of src/plugins/blackpay.ts.                                      *)
(*                                                                         *)
(* A string is a sequence of one-character strings.  A byte string is a    *)
(* sequence of numbers 0..255, a word list a sequence of numbers 0..31.    *)
(* A call that lets an exception escape has the result Throw.              *)
(***************************************************************************)
EXTENDS Integers, Sequences, FiniteSets, TLC

(***************************************************************************)
(* Characters and JavaScript string primitives.                            *)
(***************************************************************************)
Digits == <<"0", "1", "2", "3", "4", "5", "6", "7", "8", "9">>
Lower == <<"a", "b", "c", "d", "e", "f", "g", "h", "i", "j", "k", "l", "m",
           "n", "o", "p", "q", "r", "s", "t", "u", "v", "w", "x", "y", "z">>
Upper == <<"A", "B", "C", "D", "E", "F", "G", "H", "I", "J", "K", "L", "M",
           "N", "O", "P", "Q", "R", "S", "T", "U", "V", "W", "X", "Y", "Z">>

Range(s) == {s[i] : i \in DOMAIN s}

IndexOf(s, c) == CHOOSE i \in DOMAIN s : s[i] = c

\* String.prototype.charCodeAt for the characters above
charCode ==
  [c \in Range(Digits) \cup Range(Lower) \cup Range(Upper) |->
     IF c \in Range(Digits) THEN 47 + IndexOf(Digits, c)
     ELSE IF c \in Range(Upper) THEN 64 + IndexOf(Upper, c)
     ELSE 96 + IndexOf(Lower, c)]

lowerOf ==
  [c \in DOMAIN charCode |->
     IF c \in Range(Upper) THEN Lower[IndexOf(Upper, c)] ELSE c]

upperOf ==
  [c \in DOMAIN charCode |->
     IF c \in Range(Lower) THEN Upper[IndexOf(Lower, c)] ELSE c]

toLowerCase(str) == [i \in DOMAIN str |-> lowerOf[str[i]]]

toUpperCase(str) == [i \in DOMAIN str |-> upperOf[str[i]]]

\* String.prototype.startsWith
startsWith(str, target) ==
  /\ Len(target) <= Len(str)
  /\ \A i \in 1..Len(target) : str[i] = target[i]

\* String.prototype.lastIndexOf, 0-based, -1 when absent
lastIndexOf(str, c) ==
  LET at == {i \in DOMAIN str : str[i] = c}
  IN IF at = {} THEN -1 ELSE (CHOOSE i \in at : \A j \in at : j <= i) - 1

(***************************************************************************)
(* Bit operations on non-negative numbers below 2^30.                      *)
(***************************************************************************)
RECURSIVE XorBits(_, _)
XorBits(a, b) ==
  IF a = 0 THEN b
  ELSE IF b = 0 THEN a
  ELSE (((a % 2) + (b % 2)) % 2) + 2 * XorBits(a \div 2, b \div 2)

\* a ^ b for 5-bit operands
Xor5 == [a \in 0..31 |-> [b \in 0..31 |-> XorBits(a, b)]]

\* a ^ b for operands below 2^30, five bits at a time
Xor(a, b) ==
  Xor5[a % 32][b % 32]
  + 32 * Xor5[(a \div 32) % 32][(b \div 32) % 32]
  + 1024 * Xor5[(a \div 1024) % 32][(b \div 1024) % 32]
  + 32768 * Xor5[(a \div 32768) % 32][(b \div 32768) % 32]
  + 1048576 * Xor5[(a \div 1048576) % 32][(b \div 1048576) % 32]
  + 33554432 * Xor5[(a \div 33554432) % 32][(b \div 33554432) % 32]

Pow2(n) == IF n = 0 THEN 1 ELSE LET p[i \in 0..n] == IF i = 0 THEN 1 ELSE 2 * p[i - 1] IN p[n]

(***************************************************************************)
(* The bech32 package (bech32 and bech32m objects): decode and fromWords.  *)
(***************************************************************************)
ALPHABET == <<"q", "p", "z", "r", "y", "9", "x", "8", "g", "f", "2", "t", "v", "d", "w", "0",
              "s", "3", "j", "n", "5", "4", "k", "h", "c", "e", "6", "m", "u", "a", "7", "l">>

\* ALPHABET_MAP[c]: the 5-bit value of a data character, -1 for undefined
ALPHABET_MAP ==
  [c \in DOMAIN charCode |-> IF c \in Range(ALPHABET) THEN IndexOf(ALPHABET, c) - 1 ELSE -1]

Bech32Const == "bech32"
Bech32mConst == "bech32m"

\* ENCODING_CONST: 1 for bech32, 0x2bc830a3 for bech32m
ENCODING_CONST(enc) == IF enc = Bech32mConst THEN 734539939 ELSE 1

GENERATOR == <<996825010, 642813549, 513874426, 1027748829, 705979059>>

\* the generators selected by the five bits of b, xor-ed together
GEN_TABLE ==
  [b \in 0..31 |->
     LET g(i) == IF (b \div Pow2(i)) % 2 = 1 THEN GENERATOR[i + 1] ELSE 0
     IN Xor(Xor(Xor(Xor(g(0), g(1)), g(2)), g(3)), g(4))]

polymodStep(pre) ==
  Xor((pre % 33554432) * 32, GEN_TABLE[pre \div 33554432])

\* the checksum loop, chk = polymodStep(chk) ^ values[i] for i = lo..hi, evaluated
\* by halves so that the evaluation depth stays logarithmic
RECURSIVE polymod(_, _, _, _)
polymod(chk, values, lo, hi) ==
  IF lo > hi THEN chk
  ELSE IF lo = hi THEN Xor(polymodStep(chk), values[lo])
  ELSE LET mid == (lo + hi) \div 2
           c == polymod(chk, values, lo, mid)
       IN IF c >= 0 THEN polymod(c, values, mid + 1, hi) ELSE c

prefixChk(prefix) ==
  LET high == [i \in DOMAIN prefix |-> charCode[prefix[i]] \div 32]
      low == [i \in DOMAIN prefix |-> charCode[prefix[i]] % 32]
      chk == polymodStep(polymod(1, high, 1, Len(prefix)))
  IN polymod(chk, low, 1, Len(prefix))

DecodeError(msg) == [ok |-> FALSE, error |-> msg, prefix |-> <<>>, words |-> <<>>]

\* An optional number argument: <<>> when the caller passes none, <<n>> otherwise
NoLimit == <<>>

\* JavaScript truthiness of an optional number: undefined and 0 are falsy
truthy(optNumber) == optNumber # <<>> /\ optNumber[1] # 0

\* bech32.decode / bech32m.decode (str, LIMIT); a thrown error is DecodeError.
\* The package starts with LIMIT = LIMIT || 90
decode(enc, str, LIMIT) ==
  LET limit == IF truthy(LIMIT) THEN LIMIT[1] ELSE 90
      lowered == toLowerCase(str)
      uppered == toUpperCase(str)
      split == lastIndexOf(lowered, "1")
      prefix == SubSeq(lowered, 1, split)
      wordChars == SubSeq(lowered, split + 2, Len(lowered))
      values == [i \in DOMAIN wordChars |-> ALPHABET_MAP[wordChars[i]]]
  IN IF Len(str) < 8 THEN DecodeError("too short")
     ELSE IF Len(str) > limit THEN DecodeError("Exceeds length limit")
     ELSE IF str # lowered /\ str # uppered THEN DecodeError("Mixed-case string")
     ELSE IF split = -1 THEN DecodeError("No separator character")
     ELSE IF split = 0 THEN DecodeError("Missing prefix")
     ELSE IF Len(wordChars) < 6 THEN DecodeError("Data too short")
     ELSE IF \E i \in DOMAIN wordChars : ALPHABET_MAP[wordChars[i]] = -1
       THEN DecodeError("Unknown character")
     ELSE IF polymod(prefixChk(prefix), values, 1, Len(values)) # ENCODING_CONST(enc)
       THEN DecodeError("Invalid checksum")
     ELSE [ok |-> TRUE, error |-> "", prefix |-> prefix,
           words |-> SubSeq(values, 1, Len(values) - 6)]

ConvertError(msg) == [ok |-> FALSE, error |-> msg, bytes |-> <<>>]

\* convert(data, inBits, outBits, pad): the loop state is <<value, bits, result>>;
\* value keeps only the bits still to be written. convertDrain is the inner while
\* loop, convertLoop the for loop over data[lo..hi], evaluated by halves
RECURSIVE convertDrain(_, _, _, _)
convertDrain(outBits, value, bits, result) ==
  IF bits >= outBits
    THEN convertDrain(outBits, value % Pow2(bits - outBits), bits - outBits,
                      Append(result, value \div Pow2(bits - outBits)))
    ELSE <<value, bits, result>>

RECURSIVE convertLoop(_, _, _, _, _, _)
convertLoop(data, inBits, outBits, lo, hi, st) ==
  IF lo > hi THEN st
  ELSE IF lo = hi
    THEN convertDrain(outBits, st[1] * Pow2(inBits) + data[lo], st[2] + inBits, st[3])
  ELSE LET mid == (lo + hi) \div 2
           half == convertLoop(data, inBits, outBits, lo, mid, st)
       IN IF half[2] >= 0 THEN convertLoop(data, inBits, outBits, mid + 1, hi, half) ELSE half

\* bech32.fromWords(words) = convert(words, 5, 8, false); a thrown error is ConvertError
fromWords(words) ==
  LET st == convertLoop(words, 5, 8, 1, Len(words), <<0, 0, <<>>>>)
  IN IF st[2] >= 5 THEN ConvertError("Excess padding")
     ELSE IF (st[1] * Pow2(8 - st[2])) % 256 # 0 THEN ConvertError("Non-zero padding")
     ELSE [ok |-> TRUE, error |-> "", bytes |-> st[3]]

\* bech32.toWords(bytes) = convert(bytes, 8, 5, true)
toWords(bytes) ==
  LET st == convertLoop(bytes, 8, 5, 1, Len(bytes), <<0, 0, <<>>>>)
  IN IF st[2] > 0 THEN Append(st[3], (st[1] * Pow2(5 - st[2])) % 32) ELSE st[3]

\* the six checksum words of bech32.encode
checksumWords(enc, prefix, words) ==
  LET chk == polymod(prefixChk(prefix), words \o <<0, 0, 0, 0, 0, 0>>, 1, Len(words) + 6)
      x == Xor(chk, ENCODING_CONST(enc))
  IN [i \in 1..6 |-> (x \div Pow2(5 * (6 - i))) % 32]

\* bech32.encode(prefix, words)
encode(enc, prefix, words) ==
  LET all == words \o checksumWords(enc, prefix, words)
  IN prefix \o <<"1">> \o [i \in DOMAIN all |-> ALPHABET[all[i] + 1]]

(***************************************************************************)
(* Buffer: bytes of a string, hex text of bytes.                           *)
(***************************************************************************)
HexDigits == <<"0", "1", "2", "3", "4", "5", "6", "7", "8", "9", "a", "b", "c", "d", "e", "f">>

\* Buffer.from(str): the character codes of an ASCII string
bufferFromString(str) == [i \in DOMAIN str |-> charCode[str[i]]]

\* buf.toString('hex')
toHex(bytes) ==
  [i \in 1..(2 * Len(bytes)) |->
     IF i % 2 = 1 THEN HexDigits[(bytes[(i + 1) \div 2] \div 16) + 1]
     ELSE HexDigits[(bytes[i \div 2] % 16) + 1]]

\* str.slice(-n): the last n characters, the whole string when it is shorter
sliceLast(str, n) == IF Len(str) <= n THEN str ELSE SubSeq(str, Len(str) - n + 1, Len(str))

\* str.slice(0, -n): all but the last n characters
sliceButLast(str, n) == IF Len(str) <= n THEN <<>> ELSE SubSeq(str, 1, Len(str) - n)

\* str.substring(0, n)
substring0(str, n) == IF Len(str) <= n THEN str ELSE SubSeq(str, 1, n)

(***************************************************************************)
(* crypto/f4jumble: a four-round Feistel network over the two halves of    *)
(* the message.  The round functions stand for the keyed hashes of the     *)
(* package; they depend on the round, the other half and the output length.*)
(***************************************************************************)
RECURSIVE sumBytes(_, _, _)
sumBytes(bytes, lo, hi) ==
  IF lo > hi THEN 0
  ELSE IF lo = hi THEN bytes[lo]
  ELSE LET mid == (lo + hi) \div 2
           left == sumBytes(bytes, lo, mid)
       IN IF left >= 0 THEN left + sumBytes(bytes, mid + 1, hi) ELSE left

roundHash(tag, u, outLen) ==
  LET h == sumBytes(u, 1, Len(u)) + 37 * Len(u) + tag
  IN [k \in 1..outLen |-> (h + 13 * k) % 256]

xorBytes(a, b) == [k \in DOMAIN a |-> Xor(a[k], b[k])]

leftLength(M) == IF Len(M) \div 2 < 64 THEN Len(M) \div 2 ELSE 64

f4Jumble(M) ==
  LET lL == leftLength(M)
      lR == Len(M) - lL
      a == SubSeq(M, 1, lL)
      b == SubSeq(M, lL + 1, Len(M))
      x == xorBytes(b, roundHash(1, a, lR))
      y == xorBytes(a, roundHash(2, x, lL))
      d == xorBytes(x, roundHash(3, y, lR))
      c == xorBytes(y, roundHash(4, d, lL))
  IN c \o d

f4Unjumble(M) ==
  LET lL == leftLength(M)
      lR == Len(M) - lL
      c == SubSeq(M, 1, lL)
      d == SubSeq(M, lL + 1, Len(M))
      y == xorBytes(c, roundHash(4, d, lL))
      x == xorBytes(d, roundHash(3, y, lR))
      a == xorBytes(y, roundHash(2, x, lL))
      b == xorBytes(x, roundHash(1, a, lR))
  IN a \o b

(***************************************************************************)
(* Stand-in for the hash functions of the packages bs58check (double       *)
(* SHA-256) and keccak256: outLen bytes that depend on every byte of the   *)
(* input, on its position and on the length.                               *)
(***************************************************************************)
RECURSIVE weightedSum(_, _, _)
weightedSum(bytes, lo, hi) ==
  IF lo > hi THEN 0
  ELSE IF lo = hi THEN (lo + 2) * (bytes[lo] + 1)
  ELSE LET mid == (lo + hi) \div 2
           left == weightedSum(bytes, lo, mid)
       IN IF left >= 0 THEN left + weightedSum(bytes, mid + 1, hi) ELSE left

digest(tag, bytes, outLen) ==
  LET h == weightedSum(bytes, 1, Len(bytes)) + 37 * Len(bytes) + tag
  IN [k \in 1..outLen |-> (h * (2 * k + 1) + 89 * k) % 256]

(***************************************************************************)
(* Base58: numbers are big-endian byte strings of a fixed size.            *)
(***************************************************************************)
BASE58 == <<"1", "2", "3", "4", "5", "6", "7", "8", "9",
            "A", "B", "C", "D", "E", "F", "G", "H", "J", "K", "L", "M", "N", "P", "Q",
            "R", "S", "T", "U", "V", "W", "X", "Y", "Z",
            "a", "b", "c", "d", "e", "f", "g", "h", "i", "j", "k", "m", "n", "o", "p",
            "q", "r", "s", "t", "u", "v", "w", "x", "y", "z">>

\* the value of a Base58 character, -1 when it is none
BASE_MAP == [c \in DOMAIN charCode |-> IF c \in Range(BASE58) THEN IndexOf(BASE58, c) - 1 ELSE -1]

\* num * 58 + carry over bytes k..1 (least significant first); acc holds the bytes
\* already written: <<bytes, carry out>>
RECURSIVE mulAdd(_, _, _, _)
mulAdd(num, k, carry, acc) ==
  IF k = 0 THEN <<acc, carry>>
  ELSE LET v == num[k] * 58 + carry
       IN IF v >= 0 THEN mulAdd(num, k - 1, v \div 256, <<v % 256>> \o acc)
          ELSE <<acc, carry>>

\* the number written by chars[i..], added into num; overflow is remembered
RECURSIVE fromBase58(_, _, _, _)
fromBase58(chars, i, num, overflow) ==
  IF i > Len(chars) THEN <<num, overflow>>
  ELSE LET r == mulAdd(num, Len(num), BASE_MAP[chars[i]], <<>>)
       IN IF r[2] >= 0 THEN fromBase58(chars, i + 1, r[1], overflow \/ r[2] # 0)
          ELSE <<num, overflow>>

\* num divided by 58 over bytes k..Len(num) (most significant first); acc holds the
\* quotient bytes already written: <<quotient, remainder>>
RECURSIVE divMod(_, _, _, _)
divMod(num, k, rem, acc) ==
  IF k > Len(num) THEN <<acc, rem>>
  ELSE LET v == rem * 256 + num[k]
       IN IF v >= 0 THEN divMod(num, k + 1, v % 58, Append(acc, v \div 58))
          ELSE <<acc, rem>>

\* the n least significant Base58 digits of num, most significant first
RECURSIVE toBase58(_, _, _)
toBase58(num, n, acc) ==
  IF n = 0 THEN acc
  ELSE LET r == divMod(num, 1, 0, <<>>)
       IN IF r[2] >= 0 THEN toBase58(r[1], n - 1, <<BASE58[r[2] + 1]>> \o acc) ELSE acc

\* the number of leading elements of s equal to x
RECURSIVE leading(_, _, _)
leading(s, x, i) == IF i > Len(s) \/ s[i] # x THEN i - 1 ELSE leading(s, x, i + 1)

Base58Error(msg) == [ok |-> FALSE, error |-> msg, bytes |-> <<>>]

\* base58.decode of the package bs58 (base-x): one zero byte per leading "1",
\* then the number written by the other characters without leading zero bytes
base58Decode(str) ==
  LET zeroes == leading(str, "1", 1)
      rest == SubSeq(str, zeroes + 1, Len(str))
      num == fromBase58(rest, 1, [i \in 1..Len(rest) |-> 0], FALSE)[1]
      skip == leading(num, 0, 1)
  IN IF \E i \in DOMAIN str : BASE_MAP[str[i]] = -1 THEN Base58Error("Non-base58 character")
     ELSE [ok |-> TRUE, error |-> "",
           bytes |-> [i \in 1..zeroes |-> 0] \o SubSeq(num, skip + 1, Len(num))]

\* base58.encode of the package bs58
base58Encode(bytes) ==
  LET zeroes == leading(bytes, 0, 1)
      digits == toBase58(bytes, 2 * Len(bytes), <<>>)
      skip == leading(digits, "1", 1)
  IN [i \in 1..zeroes |-> "1"] \o SubSeq(digits, skip + 1, Len(digits))

\* the 4 checksum bytes of bs58check: the head of sha256(sha256(payload))
sha256x2(payload) == digest(1, payload, 4)

\* bs58check.decode(address): the payload, or a thrown error
bs58checkDecode(address) ==
  LET buffer == base58Decode(address)
      payload == sliceButLast(buffer.bytes, 4)
      checksum == sliceLast(buffer.bytes, 4)
      newChecksum == sha256x2(payload)
      \* checksum[i] ^ newChecksum[i], an absent checksum byte counting as 0
      differs(i) == (IF i <= Len(checksum) THEN checksum[i] ELSE 0) # newChecksum[i]
  IN IF ~buffer.ok THEN buffer
     ELSE IF \E i \in 1..4 : differs(i) THEN Base58Error("Invalid checksum")
     ELSE [ok |-> TRUE, error |-> "", bytes |-> payload]

\* bs58check.encode(payload)
bs58checkEncode(payload) == base58Encode(payload \o sha256x2(payload))

(***************************************************************************)
(* crypto/cnbase58: the block-wise Base58 of Monero.  8 bytes are written  *)
(* as 11 characters; a shorter last block of k bytes as                    *)
(* encoded_block_sizes[k] characters.                                      *)
(***************************************************************************)
\* encoded_block_sizes[k], k = 0..8, as a 1-based tuple
encoded_block_sizes == <<0, 2, 3, 5, 6, 7, 9, 10, 11>>

\* encoded_block_sizes.indexOf(n): 0..8, or -1
decodedBlockSize(n) ==
  IF \E k \in DOMAIN encoded_block_sizes : encoded_block_sizes[k] = n
    THEN (CHOOSE k \in DOMAIN encoded_block_sizes : encoded_block_sizes[k] = n) - 1
    ELSE -1

\* the number of blocks of an encoded string of length n
blockCount(n) == (n \div 11) + (IF n % 11 = 0 THEN 0 ELSE 1)

\* characters of block b (1-based) of enc
encodedBlock(enc, b) ==
  SubSeq(enc, 11 * (b - 1) + 1, IF 11 * b <= Len(enc) THEN 11 * b ELSE Len(enc))

\* decode_block: <<bytes, overflow>>
decodeBlock(chars) ==
  fromBase58(chars, 1, [i \in 1..decodedBlockSize(Len(chars)) |-> 0], FALSE)

RECURSIVE concatBlocks(_, _, _)
concatBlocks(blocks, lo, hi) ==
  IF lo > hi THEN <<>>
  ELSE IF lo = hi THEN blocks[lo]
  ELSE LET mid == (lo + hi) \div 2
       IN concatBlocks(blocks, lo, mid) \o concatBlocks(blocks, mid + 1, hi)

CnError(msg) == [ok |-> FALSE, error |-> msg, hex |-> <<>>]

\* cnBase58.decode(enc): the hex text of the decoded bytes, or a thrown error
cnBase58Decode(enc) ==
  LET n == blockCount(Len(enc))
      blocks == [b \in 1..n |-> decodeBlock(encodedBlock(enc, b))]
  IN IF \E i \in DOMAIN enc : BASE_MAP[enc[i]] = -1 THEN CnError("Invalid symbol")
     ELSE IF decodedBlockSize(Len(enc) % 11) = -1 THEN CnError("Invalid encoded length")
     ELSE IF \E b \in 1..n : blocks[b][2] THEN CnError("Overflow")
     ELSE [ok |-> TRUE, error |-> "",
           hex |-> toHex(concatBlocks([b \in 1..n |-> blocks[b][1]], 1, n))]

\* cnBase58.encode(bytes)
cnBase58Encode(bytes) ==
  LET n == (Len(bytes) \div 8) + (IF Len(bytes) % 8 = 0 THEN 0 ELSE 1)
      block(b) == SubSeq(bytes, 8 * (b - 1) + 1, IF 8 * b <= Len(bytes) THEN 8 * b ELSE Len(bytes))
  IN concatBlocks([b \in 1..n |-> toBase58(block(b), encoded_block_sizes[Len(block(b)) + 1], <<>>)],
                  1, n)

\* keccak256(bytes): 32 bytes
keccak256(bytes) == digest(2, bytes, 32)

(***************************************************************************)
(* validators/index.ts                                                     *)
(***************************************************************************)
ResTrue == "true"
ResFalse == "false"
\* an exception reaches the caller
Throw == "throw"

\* words.slice(1)
slice1(words) == SubSeq(words, 2, Len(words))

\* opts.<field> === value, undefined when opts has no such field
fieldEquals(opts, field, value) == field \in DOMAIN opts /\ opts[field] = value

bech32mValidator(network, address, opts) ==
  LET decoded == decode(Bech32mConst, address, NoLimit)
      \* decoded.words[0] is undefined for an empty word list, and every
      \* comparison of undefined with a number is false
      hasVersion == Len(decoded.words) > 0
      witnessVersion == decoded.words[1]
      data == fromWords(slice1(decoded.words))
  IN IF ~decoded.ok THEN ResFalse
     ELSE IF hasVersion /\ (witnessVersion < 1 \/ witnessVersion > 16) THEN ResFalse
     ELSE IF ~data.ok THEN Throw
     ELSE IF Len(data.bytes) < 2 \/ Len(data.bytes) > 40 THEN ResFalse
     ELSE IF network = "main" /\ fieldEquals(opts, "mainNetPrefix", decoded.prefix) THEN ResTrue
     ELSE IF network = "test" /\ fieldEquals(opts, "testNetPrefix", decoded.prefix) THEN ResTrue
     ELSE IF network = "regtest" /\ fieldEquals(opts, "regtestPrefix", decoded.prefix) THEN ResTrue
     ELSE ResFalse

\* bech32Validator without the witness-version test of the standard mode
bech32ValidatorAnyVersion(network, address, opts, limit) ==
  LET decoded == decode(Bech32Const, address, limit)
      data == fromWords(slice1(decoded.words))
  IN IF ~decoded.ok THEN ResFalse
     ELSE IF truthy(limit)
       THEN IF network = "main" /\ startsWith(toLowerCase(address), opts.mainNetPrefix)
              THEN ResTrue
            ELSE IF network = "test" /\ startsWith(toLowerCase(address), opts.testNetPrefix)
              THEN ResTrue
            ELSE ResFalse
     ELSE IF ~data.ok THEN Throw
     ELSE IF Len(data.bytes) # 20 /\ Len(data.bytes) # 32 THEN ResFalse
     ELSE IF network = "main" /\ fieldEquals(opts, "mainNetPrefix", decoded.prefix) THEN ResTrue
     ELSE IF network = "test" /\ fieldEquals(opts, "testNetPrefix", decoded.prefix) THEN ResTrue
     ELSE IF network = "regtest" /\ fieldEquals(opts, "regtestPrefix", decoded.prefix) THEN ResTrue
     ELSE ResFalse

\* bech32Validator whose invoice mode compares the decoded human-readable part
\* with the configured prefix instead of the start of the candidate
bech32ValidatorDecodedPrefix(network, address, opts, limit) ==
  LET decoded == decode(Bech32Const, address, limit)
      hasVersion == Len(decoded.words) > 0
      witnessVersion == decoded.words[1]
      data == fromWords(slice1(decoded.words))
  IN IF ~decoded.ok THEN ResFalse
     ELSE IF truthy(limit)
       THEN IF network = "main" /\ decoded.prefix = opts.mainNetPrefix THEN ResTrue
            ELSE IF network = "test" /\ decoded.prefix = opts.testNetPrefix THEN ResTrue
            ELSE ResFalse
     ELSE IF ~hasVersion \/ witnessVersion # 0 THEN ResFalse
     ELSE IF ~data.ok THEN Throw
     ELSE IF Len(data.bytes) # 20 /\ Len(data.bytes) # 32 THEN ResFalse
     ELSE IF network = "main" /\ fieldEquals(opts, "mainNetPrefix", decoded.prefix) THEN ResTrue
     ELSE IF network = "test" /\ fieldEquals(opts, "testNetPrefix", decoded.prefix) THEN ResTrue
     ELSE IF network = "regtest" /\ fieldEquals(opts, "regtestPrefix", decoded.prefix) THEN ResTrue
     ELSE ResFalse

bech32Validator(network, address, opts, limit) ==
  LET decoded == decode(Bech32Const, address, limit)
      hasVersion == Len(decoded.words) > 0
      witnessVersion == decoded.words[1]
      data == fromWords(slice1(decoded.words))
  IN IF ~decoded.ok THEN ResFalse
     ELSE IF truthy(limit)
       THEN IF network = "main" /\ startsWith(toLowerCase(address), opts.mainNetPrefix)
              THEN ResTrue
            ELSE IF network = "test" /\ startsWith(toLowerCase(address), opts.testNetPrefix)
              THEN ResTrue
            ELSE ResFalse
     ELSE IF ~hasVersion \/ witnessVersion # 0 THEN ResFalse
     ELSE IF ~data.ok THEN Throw
     ELSE IF Len(data.bytes) # 20 /\ Len(data.bytes) # 32 THEN ResFalse
     ELSE IF network = "main" /\ fieldEquals(opts, "mainNetPrefix", decoded.prefix) THEN ResTrue
     ELSE IF network = "test" /\ fieldEquals(opts, "testNetPrefix", decoded.prefix) THEN ResTrue
     ELSE IF network = "regtest" /\ fieldEquals(opts, "regtestPrefix", decoded.prefix) THEN ResTrue
     ELSE ResFalse

\* a || b over results: b is evaluated only when a returned false
isBech32Address(address, opts, lengthLimit) ==
  LET main == bech32Validator("main", address, opts, lengthLimit)
  IN IF main = ResFalse THEN bech32Validator("test", address, opts, lengthLimit) ELSE main

\* zecBech32Validator that skips the first word as a witness version
zecBech32ValidatorSkipsVersion(network, address, opts) ==
  LET decoded == decode(Bech32Const, address, NoLimit)
      data == fromWords(slice1(decoded.words))
  IN IF ~decoded.ok THEN ResFalse
     ELSE IF ~data.ok THEN Throw
     ELSE IF Len(data.bytes) # 43 THEN ResFalse
     ELSE IF network = "main" /\ fieldEquals(opts, "mainNetPrefix", decoded.prefix) THEN ResTrue
     ELSE IF network = "test" /\ fieldEquals(opts, "testNetPrefix", decoded.prefix) THEN ResTrue
     ELSE ResFalse

zecBech32Validator(network, address, opts) ==
  LET decoded == decode(Bech32Const, address, NoLimit)
      data == fromWords(decoded.words)
  IN IF ~decoded.ok THEN ResFalse
     ELSE IF ~data.ok THEN Throw
     ELSE IF Len(data.bytes) # 43 THEN ResFalse
     ELSE IF network = "main" /\ fieldEquals(opts, "mainNetPrefix", decoded.prefix) THEN ResTrue
     ELSE IF network = "test" /\ fieldEquals(opts, "testNetPrefix", decoded.prefix) THEN ResTrue
     ELSE ResFalse

\* confirmPadding with a padding of 34 hex characters
confirmPaddingWide(unjumbled, humanReadiblePadding) ==
  LET humanReadibleBuffer == toHex(bufferFromString(humanReadiblePadding))
      lastBytes == sliceLast(toHex(unjumbled), 32)
      wideMask == [i \in 1..34 |-> "0"]
      paddedRes == substring0(humanReadibleBuffer \o wideMask, Len(wideMask))
  IN lastBytes = paddedRes

paddingMask == [i \in 1..32 |-> "0"]

confirmPadding(unjumbled, humanReadiblePadding) ==
  LET humanReadibleBuffer == toHex(bufferFromString(humanReadiblePadding))
      lastBytes == sliceLast(toHex(unjumbled), 32)
      paddedRes == substring0(humanReadibleBuffer \o paddingMask, Len(paddingMask))
  IN lastBytes = paddedRes

zecBech32mValidator(network, address, opts) ==
  LET decoded == decode(Bech32mConst, address, <<512>>)
      data == fromWords(decoded.words)
      res == f4Unjumble(data.bytes)
  IN IF ~decoded.ok THEN ResFalse
     ELSE IF ~data.ok THEN Throw
     ELSE IF network = "main"
       \* Buffer.from(undefined) throws a TypeError
       THEN IF "mainNetPrefix" \notin DOMAIN opts THEN Throw
            ELSE IF confirmPadding(res, opts.mainNetPrefix) THEN ResTrue ELSE ResFalse
     ELSE IF network = "test"
       THEN IF "testNetPrefix" \notin DOMAIN opts THEN Throw
            ELSE IF confirmPadding(res, opts.testNetPrefix) THEN ResTrue ELSE ResFalse
     ELSE ResFalse

\* the inner loop of validatePrefix from byteIndex on: TRUE for "return true",
\* FALSE when the loop breaks or ends
RECURSIVE matchAlternative(_, _, _)
matchAlternative(currentPrefix, buf, byteIndex) ==
  IF ~(byteIndex < Len(currentPrefix)) THEN FALSE
  \* buf[byteIndex] is undefined past the end of buf, and differs from every byte
  ELSE IF byteIndex >= Len(buf) \/ currentPrefix[byteIndex + 1] # buf[byteIndex + 1] THEN FALSE
  ELSE IF byteIndex = Len(currentPrefix) - 1 THEN TRUE
  ELSE matchAlternative(currentPrefix, buf, byteIndex + 1)

\* validatePrefix that gives up at the first alternative that does not match
validatePrefixFirstOnly(prefix, buf, prefixIndex) ==
  IF ~(prefixIndex < Len(prefix)) THEN FALSE
  ELSE matchAlternative(prefix[prefixIndex + 1], buf, 0)

\* the outer loop of validatePrefix from prefixIndex on
RECURSIVE validatePrefixFrom(_, _, _)
validatePrefixFrom(prefix, buf, prefixIndex) ==
  IF ~(prefixIndex < Len(prefix)) THEN FALSE
  ELSE IF matchAlternative(prefix[prefixIndex + 1], buf, 0) THEN TRUE
  ELSE validatePrefixFrom(prefix, buf, prefixIndex + 1)

validatePrefix(prefix, buf) == validatePrefixFrom(prefix, buf, 0)

\* the prefix set opts holds for the network, <<FALSE>> for null or undefined
networkPrefix(network, opts) ==
  LET field == IF network = "main" THEN "mainNetPrefix"
               ELSE IF network = "test" THEN "testNetPrefix"
               ELSE IF network = "regtest" THEN "regtestPrefix"
               ELSE "null"
  IN IF field \in DOMAIN opts THEN <<TRUE, opts[field]>> ELSE <<FALSE>>

base58Validator(network, address, opts) ==
  LET buf == bs58checkDecode(address)
      prefix == networkPrefix(network, opts)
  IN IF ~buf.ok THEN ResFalse
     ELSE IF Len(buf.bytes) # opts.bufferLength THEN ResFalse
     ELSE IF prefix[1] THEN (IF validatePrefix(prefix[2], buf.bytes) THEN ResTrue ELSE ResFalse)
     ELSE ResFalse

\* parseInt(pair, 16) of one hex character
hexValue(c) == IndexOf(HexDigits, c) - 1

\* hexToBin(hex): <<FALSE>> for null, else <<TRUE, bytes>>
hexToBin(hex) ==
  IF Len(hex) % 2 # 0 THEN <<FALSE>>
  ELSE <<TRUE, [i \in 1..(Len(hex) \div 2) |-> 16 * hexValue(hex[2 * i - 1]) + hexValue(hex[2 * i])]>>

\* keccak256Checksum(payload): <<FALSE>> for null, else <<TRUE, the first 8 hex characters>>
keccak256Checksum(payload) ==
  IF payload[1] THEN <<TRUE, substring0(toHex(keccak256(payload[2])), 8)>> ELSE <<FALSE>>

xmrValidator(network, address, opts) ==
  LET decoded == cnBase58Decode(address)
      addrChecksum == sliceLast(decoded.hex, 8)
      hashChecksum == keccak256Checksum(hexToBin(sliceButLast(decoded.hex, 8)))
      matchesMainNetPrefix ==
        \/ startsWith(decoded.hex, opts.mainNetPublicAddrPrefix)
        \/ startsWith(decoded.hex, opts.mainNetIntegratedAddrPrefix)
        \/ startsWith(decoded.hex, opts.mainNetSubAddrPrefix)
      matchesTestNetPrefix ==
        \/ startsWith(decoded.hex, opts.testNetPublicAddrPrefix)
        \/ startsWith(decoded.hex, opts.testNetIntegratedAddrPrefix)
        \/ startsWith(decoded.hex, opts.testNetSubAddrPrefix)
      checksumMatches == hashChecksum[1] /\ addrChecksum = hashChecksum[2]
  IN IF ~decoded.ok THEN ResFalse
     ELSE IF network = "main" /\ matchesMainNetPrefix /\ checksumMatches THEN ResTrue
     ELSE IF network = "test" /\ matchesTestNetPrefix /\ checksumMatches THEN ResTrue
     ELSE ResFalse

(***************************************************************************)
(* blackpay.ts                                                             *)
(***************************************************************************)
AlphaNum == Range(Digits) \cup Range(Lower) \cup Range(Upper)

\* the character class of the local part: letters, digits and the punctuation below
\* (the grave accent of the class has no TLA+ string and no modelled uri holds it)
LocalChars ==
  AlphaNum \cup {".", "!", "#", "$", "%", "&", "'", "*", "+", "/", "=", "?", "^", "_", "{",
                 "|", "}", "~", "-"}

\* [a-zA-Z0-9](?:[a-zA-Z0-9-]{0,61}[a-zA-Z0-9])?(?:\.[a-zA-Z0-9](?:[a-zA-Z0-9-]{0,61}[a-zA-Z0-9])?)*
\* labels of 1 to 63 letters, digits and hyphens that start and end with a letter
\* or digit, separated by single dots
matchesDomain(d) ==
  /\ Len(d) >= 1
  /\ \A j \in DOMAIN d : d[j] \in AlphaNum \cup {"-", "."}
  /\ d[1] \in AlphaNum /\ d[Len(d)] \in AlphaNum
  /\ \A j \in DOMAIN d : d[j] = "." => d[j - 1] \in AlphaNum /\ d[j + 1] \in AlphaNum
  /\ \A j \in 1..(Len(d) - 63) : \E k \in j..(j + 63) : d[k] = "."

\* Blackpay.validate(network, address): re.test(address)
validate(network, address) ==
  \E at \in DOMAIN address :
    /\ address[at] = "@"
    /\ at > 1
    /\ \A j \in 1..(at - 1) : address[j] \in LocalChars
    /\ matchesDomain(SubSeq(address, at + 1, Len(address)))

\* the first index of str at or after from that holds a character of chars, Len(str) + 1 if none
firstOf(str, chars, from) ==
  LET at == {i \in from..Len(str) : str[i] \in chars}
  IN IF at = {} THEN Len(str) + 1 ELSE CHOOSE i \in at : \A j \in at : i <= j

\* toLowerCase for strings with punctuation
toLowerCase2(str) == [i \in DOMAIN str |-> IF str[i] \in DOMAIN lowerOf THEN lowerOf[str[i]] ELSE str[i]]

\* /^[a-z0-9.+-]+:/i : the length of the protocol with its colon, 0 if there is none
protocolLength(uri) ==
  LET colon == firstOf(uri, {":"}, 1)
  IN IF colon > 1 /\ colon <= Len(uri)
        /\ \A j \in 1..(colon - 1) : uri[j] \in AlphaNum \cup {".", "+", "-"}
       THEN colon ELSE 0

\* url.parse(uri) of Node for a uri without "//": [path, host], "" for null.
\* After a protocol the text up to the first / ? # is auth@host; the path is the
\* pathname with the query and without the fragment.  The characters url.parse
\* escapes or trims (spaces, quotes, braces) are in no modelled uri
urlParse(uri) ==
  LET proto == protocolLength(uri)
      rest == SubSeq(uri, proto + 1, Len(uri))
      hostEnd == IF proto = 0 THEN 0 ELSE firstOf(rest, {"/", "?", "#"}, 1) - 1
      authHost == SubSeq(rest, 1, hostEnd)
      atSign == lastIndexOf(authHost, "@")
      tail == SubSeq(rest, hostEnd + 1, Len(rest))
  IN [host |-> toLowerCase2(SubSeq(authHost, atSign + 2, Len(authHost))),
      path |-> SubSeq(tail, 1, firstOf(tail, {"#"}, 1) - 1)]

\* parseUrl without the call of validate
parseUrlUnchecked(network, uri) ==
  LET rec == urlParse(uri)
      address == IF rec.path # <<>> THEN rec.path ELSE rec.host
  IN [threw |-> FALSE, address |-> address]

ParseThrow == [threw |-> TRUE, address |-> <<>>]

\* Blackpay.parseUrl(network, uri): the address, or the thrown Error(Invalid address)
parseUrl(network, uri) ==
  LET rec == urlParse(uri)
      address == IF rec.path # <<>> THEN rec.path ELSE rec.host
  IN IF address = <<>> \/ ~validate(network, address) THEN ParseThrow
     ELSE [threw |-> FALSE, address |-> address]

\* Blackpay.getAddressType(url, network)
getAddressType(url, network) ==
  LET address == parseUrl(network, url)
  IN IF address.threw THEN Throw
     ELSE IF validate(network, address.address) THEN "Regular" ELSE "null"

(***************************************************************************)
(* The calls the model makes: networks, configurations and candidates.     *)
(***************************************************************************)
\* the seeds of the payload fillers are 0..MaxSeed
MaxSeed == 1
\* a candidate is also tried with one of its last MaxFlip characters replaced
MaxFlip == 2
\* a Base58Check prefix set has up to MaxAlts alternatives
MaxAlts == 2
\* uris over UriChars of up to MaxUriLen characters
MaxUriLen == 4

\* "mainnet" stands for every unrecognized tag
Networks == {"main", "test", "regtest", "mainnet"}

\* n payload bytes
filler(n, seed) == [i \in 1..n |-> (i * (2 * seed + 7) + 3 * seed) % 256]

\* str with the character at position k from the end replaced by another one
flip(str, k, a, b) ==
  [i \in DOMAIN str |-> IF i = Len(str) + 1 - k THEN (IF str[i] = a THEN b ELSE a) ELSE str[i]]

Flips(str, a, b) == {flip(str, k, a, b) : k \in 1..MaxFlip}

\* str with its first character in upper case: a mixed-case string
mixedCase(str) == [i \in DOMAIN str |-> IF i = 1 THEN upperOf[str[i]] ELSE str[i]]

Encodings == {Bech32Const, Bech32mConst}

BtcOpts == [mainNetPrefix |-> <<"b", "c">>, testNetPrefix |-> <<"t", "b">>, regtestPrefix |-> <<"b", "c", "r", "t">>]
\* a configuration without regtestPrefix
LtcOpts == [mainNetPrefix |-> <<"l", "t", "c">>, testNetPrefix |-> <<"t", "b">>]
LnOpts == [mainNetPrefix |-> <<"l", "n", "b", "c">>, testNetPrefix |-> <<"l", "n", "t", "b">>]
ZecOpts == [mainNetPrefix |-> <<"z", "s">>, testNetPrefix |-> <<"z", "t", "e", "s", "t", "s", "a", "p", "l", "i", "n", "g">>]
\* a configuration whose prefixes make a 43-byte address longer than 90 characters
LongZecOpts == [mainNetPrefix |-> <<"z", "s", "a", "p", "l", "i", "n", "g", "s", "h", "i", "e", "l", "d", "e", "d">>, testNetPrefix |-> <<"z", "t", "e", "s", "t", "s", "a", "p", "l", "i", "n", "g">>]
UaOpts == [mainNetPrefix |-> <<"u">>, testNetPrefix |-> <<"u", "t", "e", "s", "t">>]
\* a prefix of 17 characters, longer than the padding
LongUaOpts == [mainNetPrefix |-> <<"u", "n", "i", "f", "i", "e", "d", "a", "d", "d", "r", "e", "s", "s", "m", "a", "i", "n">>, testNetPrefix |-> <<"u", "t", "e", "s", "t">>]
\* a configuration without testNetPrefix
MainUaOpts == [mainNetPrefix |-> <<"u">>]

\* bc1qar0srrr7xfkvy5l643lydnw9re59gtzzwf5mdq
ExampleAddress ==
  <<"b", "c", "1", "q", "a", "r", "0", "s", "r", "r", "r", "7", "x", "f", "k", "v", "y", "5", "l", "6", "4", "3", "l", "y", "d", "n", "w", "9", "r", "e", "5", "9", "g", "t", "z", "z", "w", "f", "5", "m", "d", "q">>

SegwitVersions == {0, 1, 16, 17}
SegwitLengths == {1, 2, 20, 21, 32, 40, 41}

segwitAddress(enc, hrp, v, n, seed) == encode(enc, hrp, <<v>> \o toWords(filler(n, seed)))

\* witness version and program, well formed
SegwitCandidates ==
  {ExampleAddress}
  \cup {segwitAddress(enc, <<"b", "c">>, v, n, 0) : enc \in Encodings, v \in SegwitVersions, n \in SegwitLengths}
  \cup {segwitAddress(enc, hrp, v, n, seed) :
          enc \in Encodings, hrp \in {<<"b", "c">>, <<"t", "b">>}, v \in {0, 1}, n \in {20, 32},
          seed \in 0..MaxSeed}

\* word lists that do not re-pack into bytes, the empty word list, a version alone
UnpackableCandidates ==
  {encode(enc, <<"b", "c">>, words) :
     enc \in Encodings,
     words \in {<<>>, <<0>>, <<1>>, <<0, 0>>, <<1, 0>>, <<17, 0>>,
                <<0>> \o toWords(filler(20, 0)) \o <<0>>,
                <<1>> \o toWords(filler(32, 0)) \o <<0>>,
                <<0>> \o [i \in 1..32 |-> 31],
                <<1>> \o [i \in 1..32 |-> 31],
                toWords(filler(43, 0)) \o <<0>>,
                [i \in 1..69 |-> 31]}}

RegtestCandidates ==
  {encode(Bech32Const, <<"b", "c", "r", "t">>, <<0>> \o toWords(filler(20, 0))),
   encode(Bech32mConst, <<"b", "c", "r", "t">>, <<1>> \o toWords(filler(32, 0))),
   encode(Bech32Const, <<"l", "t", "c">>, <<0>> \o toWords(filler(20, 0))),
   encode(Bech32mConst, <<"l", "t", "c">>, <<1>> \o toWords(filler(32, 0)))}

\* strings that bech32.decode refuses
MalformedCandidates ==
  UNION {Flips(a, "q", "p") : a \in {ExampleAddress,
                                      encode(Bech32mConst, <<"b", "c">>, <<1>> \o toWords(filler(32, 0)))}}
  \cup {mixedCase(ExampleAddress),
        flip(ExampleAddress, 10, "b", "b"),
        <<"b", "c", "1", "q", "q", "q", "q">>, <<"b", "c", "q", "q", "q", "q", "q", "q", "q", "q">>, <<"1", "q", "q", "q", "q", "q", "q", "q">>, <<"b", "c", "1", "q", "q", "q", "q", "q">>, <<>>}

UpperCaseCandidates ==
  {toUpperCase(ExampleAddress),
   toUpperCase(encode(Bech32mConst, <<"b", "c">>, <<1>> \o toWords(filler(32, 0))))}

\* invoice-like identifiers: no witness version, any length
invoice(hrp, n, seed) == encode(Bech32Const, hrp, [i \in 1..n |-> (i * (seed + 3)) % 32])

InvoiceCandidates ==
  UNION {{a, toUpperCase(a)} :
           a \in {invoice(hrp, n, 0) : hrp \in {<<"l", "n", "b", "c">>, <<"l", "n", "t", "b">>, <<"l", "n", "b", "c", "r", "t">>, <<"l", "n", "b", "c", "2", "5", "u">>, <<"b", "c">>},
                                       n \in {10, 100}}
                 \cup {invoice(<<"l", "n", "b", "c">>, 100, seed) : seed \in 0..MaxSeed}}

SaplingCandidates ==
  {encode(enc, hrp, toWords(filler(n, 0))) :
     enc \in Encodings, hrp \in {<<"z", "s">>, <<"z", "t", "e", "s", "t", "s", "a", "p", "l", "i", "n", "g">>, <<"z", "s", "a", "p", "l", "i", "n", "g", "s", "h", "i", "e", "l", "d", "e", "d">>}, n \in {42, 43, 44}}
  \cup {encode(Bech32Const, hrp, toWords(filler(43, seed))) :
          hrp \in {<<"z", "s">>, <<"z", "t", "e", "s", "t", "s", "a", "p", "l", "i", "n", "g">>}, seed \in 0..MaxSeed}

\* the 16 padding bytes of a unified address: the bytes of hrp, then zeros
uaPadding(hrp) == [i \in 1..16 |-> IF i <= Len(hrp) THEN charCode[hrp[i]] ELSE 0]

\* a unified address of human-readable part hrp whose payload ends with tail
unifiedAddress(enc, hrp, receivers, tail) == encode(enc, hrp, toWords(f4Jumble(receivers \o tail)))

UaTails ==
  {uaPadding(h) : h \in {<<"u">>, <<"u", "t", "e", "s", "t">>, <<"u", "n", "i", "f", "i", "e", "d", "a", "d", "d", "r", "e", "s", "s", "m", "a", "i", "n">>}}
  \cup {[i \in 1..16 |-> IF i = 1 THEN 117 ELSE IF i = 16 THEN 1 ELSE 0],
        [i \in 1..15 |-> IF i = 1 THEN 117 ELSE 0],
        [i \in 1..17 |-> IF i = 1 THEN 117 ELSE 0]}

UnifiedCandidates ==
  {unifiedAddress(Bech32mConst, hrp, filler(32, seed), tail) :
     hrp \in {<<"u">>, <<"u", "t", "e", "s", "t">>}, seed \in 0..MaxSeed, tail \in UaTails}
  \cup {unifiedAddress(Bech32mConst, <<"u">>, filler(310, 0), uaPadding(<<"u">>)),
        unifiedAddress(Bech32mConst, <<"u">>, filler(60, 0), uaPadding(<<"u">>)),
        unifiedAddress(Bech32Const, <<"u">>, filler(32, 0), uaPadding(<<"u">>)),
        encode(Bech32mConst, <<"u">>, toWords(f4Jumble(filler(32, 0) \o uaPadding(<<"u">>))) \o <<0>>),
        encode(Bech32mConst, <<"u">>, [i \in 1..80 |-> 31]),
        encode(Bech32mConst, <<"u">>, toWords(<<117, 0, 0>>)),
        encode(Bech32mConst, <<"u">>, <<>>)}

\* Base58Check payloads of n bytes that start with head
base58Address(head, n, seed) == bs58checkEncode(head \o filler(n - Len(head), seed))

Base58Candidates ==
  {base58Address(head, 21, seed) : head \in {<<65>>, <<111>>, <<5>>, <<0>>}, seed \in 0..MaxSeed}
  \cup {base58Address(<<65>>, n, 0) : n \in {20, 22}}
  \cup Flips(base58Address(<<65>>, 21, 0), "1", "2")
  \cup {<<"0", "O", "I", "l">>, <<>>, base58Encode(<<65, 1, 2>>)}

\* the alternatives a prefix set is made of: the empty one, the two version bytes
\* of the candidates, and two bytes of which the second differs from the candidates'
PrefixAlternatives == {<<>>, <<65>>, <<111>>, <<65, 8>>}

\* the prefix sets of up to n alternatives
RECURSIVE PrefixSets(_)
PrefixSets(n) ==
  IF n = 0 THEN {<<>>}
  ELSE PrefixSets(n - 1)
       \cup {Append(p, a) : p \in {x \in PrefixSets(n - 1) : Len(x) = n - 1},
                            a \in PrefixAlternatives}

\* [[0x05], [0x0c, 0x1e]], a set with a two-byte alternative, and a set whose
\* second alternative matches the first two payload bytes of a candidate
MultiBytePrefixes == {<<<<5>>, <<12, 30>>>>, <<<<65, 8>>, <<65, 7>>>>}

\* configurations with every prefix set for main
PrefixSetOpts ==
  {[bufferLength |-> 21, mainNetPrefix |-> p, testNetPrefix |-> <<<<111>>>>] :
     p \in PrefixSets(MaxAlts) \cup MultiBytePrefixes}

\* the well-formed candidates the prefix sets are tried on
WellFormedBase58Candidates == {base58Address(head, 21, 0) : head \in {<<65>>, <<111>>}}

\* configurations with and without regtestPrefix, of 21 and 22 bytes
Base58Opts ==
  {[bufferLength |-> 21, mainNetPrefix |-> <<<<65>>>>, testNetPrefix |-> <<<<111>>>>]}
  \cup {[bufferLength |-> 21, mainNetPrefix |-> <<<<65>>>>, testNetPrefix |-> <<<<111>>>>,
         regtestPrefix |-> p] : p \in {<<<<111>>>>, <<<<>>, <<65>>>>}}
  \cup {[bufferLength |-> 22, mainNetPrefix |-> <<<<65>>>>, testNetPrefix |-> <<<<65>>>>]}

XmrOpts ==
  [mainNetPublicAddrPrefix |-> <<"1", "2">>, mainNetIntegratedAddrPrefix |-> <<"1", "3">>,
   mainNetSubAddrPrefix |-> <<"2", "a">>, testNetPublicAddrPrefix |-> <<"3", "5">>,
   testNetIntegratedAddrPrefix |-> <<"3", "6">>, testNetSubAddrPrefix |-> <<"3", "f">>]

\* the 4 checksum bytes of a Monero address
xmrChecksum(payload) == SubSeq(keccak256(payload), 1, 4)

xmrAddress(payload) == cnBase58Encode(payload \o xmrChecksum(payload))

\* a configuration with a prefix of 4 hex characters, longer than the hex of the
\* one-byte payload 0x12
LongXmrOpts ==
  [mainNetPublicAddrPrefix |-> substring0(toHex(<<18>> \o xmrChecksum(<<18>>)), 4), mainNetIntegratedAddrPrefix |-> <<"1", "3">>,
   mainNetSubAddrPrefix |-> <<"2", "a">>, testNetPublicAddrPrefix |-> <<"3", "5">>,
   testNetIntegratedAddrPrefix |-> <<"3", "6">>, testNetSubAddrPrefix |-> <<"3", "f">>]

XmrCandidates ==
  {xmrAddress(<<tag>> \o filler(64, seed)) : tag \in {18, 19, 42, 53, 63, 24}, seed \in 0..MaxSeed}
  \cup {cnBase58Encode(<<18>> \o filler(64, 0) \o <<1, 2, 3, 4>>),
        xmrAddress(<<18>>), xmrAddress(<<>>), cnBase58Encode(<<18, 0>>),
        <<"z", "z", "z", "z", "z", "z", "z", "z", "z", "z", "z">>, <<"0", "O", "I", "l">>, <<"1">>, <<>>}
  \cup Flips(xmrAddress(<<18>> \o filler(64, 0)), "1", "2")

UriChars == {"a", "@", ".", "-"}

\* the strings over UriChars of up to n characters
RECURSIVE Uris(_)
Uris(n) ==
  IF n = 0 THEN {<<>>}
  ELSE Uris(n - 1)
       \cup {Append(u, c) : u \in {x \in Uris(n - 1) : Len(x) = n - 1}, c \in UriChars}

UriCandidates ==
  Uris(MaxUriLen)
  \cup {<<"t", "r", "o", "n", ":", "a", "@", "b", ".", "c">>,
        <<"t", "r", "o", "n", ":", "/", "a", "@", "b", ".", "c">>,
        <<"a", "@", "b", ".", "c", "#", "x">>,
        <<"a", "@", "b", ".", "c", "?", "x">>,
        <<"a", "?", "x", "@", "B", "9">>,
        <<"#", "a", "@", "b">>,
        <<"a", "@">> \o [i \in 1..63 |-> "x"] \o <<".", "c">>,
        <<"a", "@">> \o [i \in 1..64 |-> "x"] \o <<".", "c">>}

(***************************************************************************)
(* The state: one call at a time.  pc is "idle" between calls and "done"   *)
(* when the call fn(network, address, opts, limit) has ended with result.  *)
(***************************************************************************)
VARIABLES pc, fn, network, address, opts, limit, result

vars == <<pc, fn, network, address, opts, limit, result>>

NoOpts == [none |-> TRUE]

Init ==
  /\ pc = "idle"
  /\ fn = ""
  /\ network = ""
  /\ address = <<>>
  /\ opts = NoOpts
  /\ limit = NoLimit
  /\ result = ""

Bech32Candidates ==
  SegwitCandidates \cup UnpackableCandidates \cup RegtestCandidates
  \cup MalformedCandidates \cup UpperCaseCandidates

CallBase58Validator ==
  \/ \E n \in Networks, a \in Base58Candidates, o \in Base58Opts :
       /\ pc = "idle"
       /\ pc' = "done"
       /\ fn' = "base58Validator"
       /\ network' = n
       /\ address' = a
       /\ opts' = o
       /\ limit' = NoLimit
       /\ result' = base58Validator(n, a, o)
  \/ \E n \in Networks, a \in WellFormedBase58Candidates, o \in PrefixSetOpts :
       /\ pc = "idle"
       /\ pc' = "done"
       /\ fn' = "base58Validator"
       /\ network' = n
       /\ address' = a
       /\ opts' = o
       /\ limit' = NoLimit
       /\ result' = base58Validator(n, a, o)

CallBech32mValidator ==
  \/ \E n \in Networks, a \in Bech32Candidates :
       /\ pc = "idle"
       /\ pc' = "done"
       /\ fn' = "bech32mValidator"
       /\ network' = n
       /\ address' = a
       /\ opts' = BtcOpts
       /\ limit' = NoLimit
       /\ result' = bech32mValidator(n, a, BtcOpts)
  \/ \E n \in Networks, a \in RegtestCandidates :
       /\ pc = "idle"
       /\ pc' = "done"
       /\ fn' = "bech32mValidator"
       /\ network' = n
       /\ address' = a
       /\ opts' = LtcOpts
       /\ limit' = NoLimit
       /\ result' = bech32mValidator(n, a, LtcOpts)

\* standard mode: no limit, or a limit of 0
CallBech32Validator ==
  \/ \E n \in Networks, a \in Bech32Candidates :
       /\ pc = "idle"
       /\ pc' = "done"
       /\ fn' = "bech32Validator"
       /\ network' = n
       /\ address' = a
       /\ opts' = BtcOpts
       /\ limit' = NoLimit
       /\ result' = bech32Validator(n, a, BtcOpts, NoLimit)
  \/ \E n \in Networks, a \in RegtestCandidates :
       /\ pc = "idle"
       /\ pc' = "done"
       /\ fn' = "bech32Validator"
       /\ network' = n
       /\ address' = a
       /\ opts' = LtcOpts
       /\ limit' = NoLimit
       /\ result' = bech32Validator(n, a, LtcOpts, NoLimit)
  \/ \E n \in Networks, a \in InvoiceCandidates \cup RegtestCandidates \cup UpperCaseCandidates,
        o \in {BtcOpts, LnOpts} :
       /\ pc = "idle"
       /\ pc' = "done"
       /\ fn' = "bech32Validator"
       /\ network' = n
       /\ address' = a
       /\ opts' = o
       /\ limit' = <<0>>
       /\ result' = bech32Validator(n, a, o, <<0>>)

InvoiceLimits == {<<1023>>, <<50>>}

\* invoice mode: a limit is passed
CallBech32ValidatorInvoice ==
  \E n \in Networks, a \in InvoiceCandidates \cup RegtestCandidates \cup MalformedCandidates,
     o \in {BtcOpts, LnOpts}, l \in InvoiceLimits :
    /\ pc = "idle"
    /\ pc' = "done"
    /\ fn' = "bech32Validator"
    /\ network' = n
    /\ address' = a
    /\ opts' = o
    /\ limit' = l
    /\ result' = bech32Validator(n, a, o, l)

CallIsBech32Address ==
  \E a \in InvoiceCandidates \cup RegtestCandidates \cup MalformedCandidates,
     o \in {BtcOpts, LnOpts}, l \in InvoiceLimits \cup {<<0>>} :
    /\ pc = "idle"
    /\ pc' = "done"
    /\ fn' = "isBech32Address"
    /\ network' = ""
    /\ address' = a
    /\ opts' = o
    /\ limit' = l
    /\ result' = isBech32Address(a, o, l)

CallZecBech32Validator ==
  \E n \in Networks, a \in SaplingCandidates \cup UnpackableCandidates \cup MalformedCandidates,
     o \in {ZecOpts, LongZecOpts} :
    /\ pc = "idle"
    /\ pc' = "done"
    /\ fn' = "zecBech32Validator"
    /\ network' = n
    /\ address' = a
    /\ opts' = o
    /\ limit' = NoLimit
    /\ result' = zecBech32Validator(n, a, o)

CallZecBech32mValidator ==
  \E n \in Networks, a \in UnifiedCandidates \cup MalformedCandidates,
     o \in {UaOpts, LongUaOpts, MainUaOpts} :
    /\ pc = "idle"
    /\ pc' = "done"
    /\ fn' = "zecBech32mValidator"
    /\ network' = n
    /\ address' = a
    /\ opts' = o
    /\ limit' = NoLimit
    /\ result' = zecBech32mValidator(n, a, o)

CallXmrValidator ==
  \E n \in Networks, a \in XmrCandidates, o \in {XmrOpts, LongXmrOpts} :
    /\ pc = "idle"
    /\ pc' = "done"
    /\ fn' = "xmrValidator"
    /\ network' = n
    /\ address' = a
    /\ opts' = o
    /\ limit' = NoLimit
    /\ result' = xmrValidator(n, a, o)

CallParseUrl ==
  \E n \in {"main", "test"}, uri \in UriCandidates :
    /\ pc = "idle"
    /\ pc' = "done"
    /\ fn' = "parseUrl"
    /\ network' = n
    /\ address' = uri
    /\ opts' = NoOpts
    /\ limit' = NoLimit
    /\ result' = parseUrl(n, uri)

CallGetAddressType ==
  \E n \in {"main", "test"}, url \in UriCandidates :
    /\ pc = "idle"
    /\ pc' = "done"
    /\ fn' = "getAddressType"
    /\ network' = n
    /\ address' = url
    /\ opts' = NoOpts
    /\ limit' = NoLimit
    /\ result' = getAddressType(url, n)

\* the caller takes the result; nothing of a call outlives it
Return ==
  /\ pc = "done"
  /\ pc' = "idle"
  /\ fn' = ""
  /\ network' = ""
  /\ address' = <<>>
  /\ opts' = NoOpts
  /\ limit' = NoLimit
  /\ result' = ""

Next ==
  \/ CallBase58Validator
  \/ CallBech32mValidator
  \/ CallBech32Validator
  \/ CallBech32ValidatorInvoice
  \/ CallIsBech32Address
  \/ CallZecBech32Validator
  \/ CallZecBech32mValidator
  \/ CallXmrValidator
  \/ CallParseUrl
  \/ CallGetAddressType
  \/ Return

Spec == Init /\ [][Next]_vars

(***************************************************************************)
(* Properties of the calls.                                                *)
(***************************************************************************)
\* the call of f has ended and its result is in result
Returned(f) == pc = "done" /\ fn = f

Validators ==
  {"base58Validator", "bech32Validator", "isBech32Address", "bech32mValidator",
   "zecBech32Validator", "zecBech32mValidator", "xmrValidator"}

SegwitNetworks == {"main", "test", "regtest"}
ZcashNetworks == {"main", "test"}

\* the prefix o configures for net when net is one of tags, <<FALSE>> otherwise
configuredPrefix(net, o, tags) == IF net \in tags THEN networkPrefix(net, o) ELSE <<FALSE>>

\* p is the prefix o configures for net, one of tags
prefixIs(net, o, tags, p) ==
  LET c == configuredPrefix(net, o, tags)
  IN c[1] /\ c[2] = p

\* the three prefixes o configures for Monero addresses of net
xmrPrefixes(net, o) ==
  IF net = "main"
    THEN {o.mainNetPublicAddrPrefix, o.mainNetIntegratedAddrPrefix, o.mainNetSubAddrPrefix}
  ELSE IF net = "test"
    THEN {o.testNetPublicAddrPrefix, o.testNetIntegratedAddrPrefix, o.testNetSubAddrPrefix}
  ELSE {}

\* C1: every call of a validator returns true or false; no exception reaches
\* the caller, whatever the network, the candidate and the configuration are
ValidatorsAreTotal ==
  pc = "done" /\ fn \in Validators => result \in {ResTrue, ResFalse}

\* the invoice-mode test of bech32Validator for net: the candidate decodes within
\* the limit and, in lower case, starts with the prefix configured for main or test
invoiceAccepts(net, a, o, l) ==
  LET c == configuredPrefix(net, o, ZcashNetworks)
  IN decode(Bech32Const, a, l).ok /\ c[1] /\ startsWith(toLowerCase(a), c[2])

\* C2: a validator that returns true for a network has found the candidate's own
\* prefix equal to the prefix configured for that network: leading decoded bytes
\* (Base58Check), decoded human-readable part (Bech32, Bech32m, Zcash Bech32,
\* Zcash Unified Address), literal start (invoice mode), hex start (Monero)
TrueImpliesOwnPrefixMatches ==
  pc = "done" /\ fn \in Validators \ {"isBech32Address"} /\ result = ResTrue =>
    CASE fn = "base58Validator" ->
           LET c == configuredPrefix(network, opts, SegwitNetworks)
           IN c[1] /\ \E i \in DOMAIN c[2] : startsWith(bs58checkDecode(address).bytes, c[2][i])
      [] fn = "bech32Validator" ->
           IF truthy(limit) THEN invoiceAccepts(network, address, opts, limit)
           ELSE prefixIs(network, opts, SegwitNetworks, decode(Bech32Const, address, limit).prefix)
      [] fn = "bech32mValidator" ->
           prefixIs(network, opts, SegwitNetworks, decode(Bech32mConst, address, NoLimit).prefix)
      [] fn = "zecBech32Validator" ->
           prefixIs(network, opts, ZcashNetworks, decode(Bech32Const, address, NoLimit).prefix)
      [] fn = "zecBech32mValidator" ->
           prefixIs(network, opts, ZcashNetworks, decode(Bech32mConst, address, <<512>>).prefix)
      [] fn = "xmrValidator" ->
           \E p \in xmrPrefixes(network, opts) : startsWith(cnBase58Decode(address).hex, p)

\* the Base58Check conditions of acceptance but the prefix: the candidate decodes
\* to the configured length and the network has a prefix set
base58Decodes(net, buf, o) ==
  configuredPrefix(net, o, SegwitNetworks)[1] /\ buf.ok /\ Len(buf.bytes) = o.bufferLength

\* C3 as stated: base58Validator returns true iff the candidate decodes to the
\* configured length and the decoded bytes start with an alternative of the
\* network's prefix set, whatever the lengths of the alternatives
Base58AcceptsIffStartsWithAlternative ==
  Returned("base58Validator") =>
    LET buf == bs58checkDecode(address)
        prefix == networkPrefix(network, opts)
    IN result = ResTrue <=>
         /\ base58Decodes(network, buf, opts)
         /\ \E i \in DOMAIN prefix[2] : startsWith(buf.bytes, prefix[2][i])

\* C3 amended: base58Validator returns true iff the candidate decodes to the
\* configured length and the decoded bytes start with a non-empty alternative of
\* the network's prefix set; an empty alternative matches nothing
Base58AcceptsIffStartsWithNonEmptyAlternative ==
  Returned("base58Validator") =>
    LET buf == bs58checkDecode(address)
        prefix == networkPrefix(network, opts)
    IN result = ResTrue <=>
         /\ base58Decodes(network, buf, opts)
         /\ \E i \in DOMAIN prefix[2] :
              Len(prefix[2][i]) > 0 /\ startsWith(buf.bytes, prefix[2][i])

\* a candidate accepted on its second alternative after the first one, of two
\* bytes, matched on its first byte only
Base58LaterAlternativeAccepted ==
  /\ Returned("base58Validator") /\ result = ResTrue /\ network = "main"
  /\ Len(opts.mainNetPrefix) = 2
  /\ Len(opts.mainNetPrefix[1]) = 2
  /\ opts.mainNetPrefix[1][1] = bs58checkDecode(address).bytes[1]
  /\ ~startsWith(bs58checkDecode(address).bytes, opts.mainNetPrefix[1])

\* C4: without a limit bech32Validator returns true iff the candidate decodes,
\* its witness version is 0, the other words re-pack to 20 or 32 bytes and the
\* decoded human-readable part is the prefix of the network (main, test, regtest)
StandardBech32AcceptsIff ==
  Returned("bech32Validator") /\ limit = NoLimit =>
    LET decoded == decode(Bech32Const, address, NoLimit)
        data == fromWords(slice1(decoded.words))
    IN result = ResTrue <=>
         /\ decoded.ok
         /\ Len(decoded.words) > 0
         /\ decoded.words[1] = 0
         /\ data.ok
         /\ Len(data.bytes) \in {20, 32}
         /\ prefixIs(network, opts, SegwitNetworks, decoded.prefix)

\* bc1qar0srrr7xfkvy5l643lydnw9re59gtzzwf5mdq is accepted for main with prefix bc
ExampleAcceptedForMain ==
  /\ Returned("bech32Validator") /\ limit = NoLimit
  /\ address = ExampleAddress /\ network = "main" /\ opts = BtcOpts
  /\ result = ResTrue

\* C5 as stated: with any limit supplied bech32Validator returns true iff the
\* candidate decodes within the limit and, in lower case, starts with the prefix
\* of the network (main or test); isBech32Address is this test for main or test
InvoiceModeForAnyLimit ==
  /\ Returned("bech32Validator") /\ limit # NoLimit =>
       (result = ResTrue <=> invoiceAccepts(network, address, opts, limit))
  /\ Returned("isBech32Address") =>
       (result = ResTrue <=>
          \/ invoiceAccepts("main", address, opts, limit)
          \/ invoiceAccepts("test", address, opts, limit))

\* C5 amended: with a limit other than 0 supplied bech32Validator returns true
\* iff the candidate decodes within the limit and, in lower case, starts with the
\* prefix of the network (main or test), whatever the witness version and the
\* payload length; isBech32Address with such a limit is this test for main or test
InvoiceModeForNonZeroLimit ==
  /\ Returned("bech32Validator") /\ truthy(limit) =>
       (result = ResTrue <=> invoiceAccepts(network, address, opts, limit))
  /\ Returned("isBech32Address") /\ truthy(limit) =>
       (result = ResTrue <=>
          \/ invoiceAccepts("main", address, opts, limit)
          \/ invoiceAccepts("test", address, opts, limit))

\* an invoice accepted though its first word is not 0 and its human-readable
\* part is longer than the configured prefix
InvoiceAcceptedWithoutVersion ==
  /\ Returned("bech32Validator") /\ truthy(limit) /\ result = ResTrue
  /\ decode(Bech32Const, address, limit).words[1] # 0
  /\ decode(Bech32Const, address, limit).prefix # opts.mainNetPrefix
  /\ network = "main"

\* the witness version and the program length of a Bech32m candidate are in
\* range: a first word in 1..16 and other words that re-pack to 2..40 bytes
bech32mInRange(a) ==
  LET decoded == decode(Bech32mConst, a, NoLimit)
      data == fromWords(slice1(decoded.words))
  IN /\ decoded.ok
     /\ Len(decoded.words) > 0
     /\ decoded.words[1] \in 1..16
     /\ data.ok
     /\ Len(data.bytes) \in 2..40

\* C6: bech32mValidator returns true only for a witness version in 1..16 and a
\* program of 2..40 bytes, returns false for every candidate outside these ranges
\* (an empty word list and a version of 0 or 17..31 included), and within them
\* returns true iff the decoded human-readable part is the network's prefix
Bech32mRangesDecide ==
  Returned("bech32mValidator") =>
    /\ result = ResTrue => bech32mInRange(address)
    /\ ~bech32mInRange(address) => result = ResFalse
    /\ bech32mInRange(address) =>
         (result = ResTrue <=>
            prefixIs(network, opts, SegwitNetworks,
                     decode(Bech32mConst, address, NoLimit).prefix))

\* String.prototype.padEnd(width, '0')
padEnd(str, width) ==
  IF Len(str) >= width THEN str ELSE str \o [i \in 1..(width - Len(str)) |-> "0"]

\* the last 16 bytes, in hex, of the de-jumbled payload of a unified address
unifiedTail(a) ==
  sliceLast(toHex(f4Unjumble(fromWords(decode(Bech32mConst, a, <<512>>).words).bytes)), 32)

\* a unified address decodes within 512 characters and re-packs into bytes
unifiedDecodes(a) ==
  LET decoded == decode(Bech32mConst, a, <<512>>)
  IN decoded.ok /\ fromWords(decoded.words).ok

\* C7 as stated: zecBech32mValidator returns true for main or test iff the
\* candidate decodes within 512 characters and the last 32 hex characters of the
\* de-jumbled payload are the hex of the network's prefix padded with 0 digits
\* to 34 hex characters
UnifiedAcceptsIffPaddedTo34 ==
  Returned("zecBech32mValidator") =>
    LET c == configuredPrefix(network, opts, ZcashNetworks)
    IN result = ResTrue <=>
         /\ unifiedDecodes(address)
         /\ c[1]
         /\ unifiedTail(address) = padEnd(toHex(bufferFromString(c[2])), 34)

\* C7 amended: zecBech32mValidator returns true for main or test iff the
\* candidate decodes within 512 characters and the last 32 hex characters of the
\* de-jumbled payload are the hex of the network's prefix padded with 0 digits
\* to 32 hex characters, or its first 32 hex characters when it is longer
UnifiedAcceptsIffPaddedTo32 ==
  Returned("zecBech32mValidator") =>
    LET c == configuredPrefix(network, opts, ZcashNetworks)
    IN result = ResTrue <=>
         /\ unifiedDecodes(address)
         /\ c[1]
         /\ unifiedTail(address) = substring0(padEnd(toHex(bufferFromString(c[2])), 32), 32)

\* a unified address accepted for main: its de-jumbled payload ends with the
\* byte of u and 15 zero bytes
UnifiedAcceptedForMain ==
  /\ Returned("zecBech32mValidator") /\ result = ResTrue /\ network = "main"
  /\ opts.mainNetPrefix = <<"u">>
  /\ unifiedTail(address) = <<"7", "5">> \o [i \in 1..30 |-> "0"]

\* the hex of the payload of a Monero address: the decoded hex but its last 8 characters
xmrPayloadHex(a) == sliceButLast(cnBase58Decode(a).hex, 8)

\* C8: xmrValidator returns true iff the candidate decodes, its payload hex has
\* an even length, the first 8 hex characters of Keccak-256 of the payload are
\* the last 8 of the decoded hex, and the payload hex starts with one of the
\* three prefixes of the network (main or test)
XmrAcceptsIffPayloadStartsWithPrefix ==
  Returned("xmrValidator") =>
    LET decoded == cnBase58Decode(address)
        payload == hexToBin(xmrPayloadHex(address))
    IN result = ResTrue <=>
         /\ decoded.ok
         /\ payload[1]
         /\ substring0(toHex(keccak256(payload[2])), 8) = sliceLast(decoded.hex, 8)
         /\ \E p \in xmrPrefixes(network, opts) : startsWith(xmrPayloadHex(address), p)

\* the Zcash Bech32 conditions of acceptance, given the result of the decode
saplingAccepts(net, o, decoded) ==
  LET data == fromWords(decoded.words)
  IN /\ decoded.ok
     /\ data.ok
     /\ Len(data.bytes) = 43
     /\ prefixIs(net, o, ZcashNetworks, decoded.prefix)

\* C9 as stated: zecBech32Validator returns true iff the candidate, of any
\* length, decodes, all its words re-pack to 43 bytes and the decoded
\* human-readable part is the prefix of the network, main or test
SaplingAcceptsIffAnyLength ==
  Returned("zecBech32Validator") =>
    (result = ResTrue <=>
       saplingAccepts(network, opts, decode(Bech32Const, address, <<Len(address)>>)))

\* C9 amended: zecBech32Validator returns true iff the candidate decodes within
\* the 90 characters the decoder allows when no limit is given, all its words
\* re-pack to 43 bytes and the decoded human-readable part is the prefix of the
\* network, main or test
SaplingAcceptsIffWithin90 ==
  Returned("zecBech32Validator") =>
    (result = ResTrue <=> saplingAccepts(network, opts, decode(Bech32Const, address, NoLimit)))

\* a 43-byte address accepted for test, with no word skipped
SaplingAcceptedForTest ==
  /\ Returned("zecBech32Validator") /\ result = ResTrue /\ network = "test"
  /\ Len(fromWords(decode(Bech32Const, address, NoLimit).words).bytes) = 43

\* C10: parseUrl returns an address only when validate accepts it and throws
\* otherwise, and getAddressType returns Regular or throws: it never returns null
GetAddressTypeNeverNull ==
  /\ Returned("parseUrl") /\ ~result.threw => validate(network, result.address)
  /\ Returned("parseUrl") /\ result.threw =>
       LET rec == urlParse(address)
       IN ~validate(network, IF rec.path # <<>> THEN rec.path ELSE rec.host)
  /\ Returned("getAddressType") => result \in {"Regular", Throw}

\* getAddressType has returned Regular for a uri with a protocol
RegularReturned ==
  /\ Returned("getAddressType") /\ result = "Regular"
  /\ protocolLength(address) > 0

====
